---- MODULE Spec2Model ----
(***************************************************************************)
(* The useAudioStream hook (hooks/useAudioStream.ts, the MediaRecorder     *)
(* revision) together with the browser objects it drives: MediaStreams,    *)
(* MediaRecorders, AudioContexts, socket.io sockets and the promises that  *)
(* finalizeRecording returns.  Every callback of the hook is one action;   *)
(* the helper operators map a record of the hook's state to the record the *)
(* callback leaves behind, so that a callback that calls another one       *)
(* (onRecordingStop -> doCleanup, connect_error -> stopRecording) is the   *)
(* composition of the two.                                                 *)
(*                                                                         *)
(* Strings are tuples of one-character strings, so that trim, toLowerCase  *)
(* and includes are computed and not assumed.                              *)
(***************************************************************************)
EXTENDS Integers, Sequences, FiniteSets, TLC

\* ------------------------------------------------------------------ bounds
MaxAcq == 2
MaxSock == 2
MaxChunks == 2
MaxPending == 2
MaxFinalize == 2
MaxHeard == 3
MaxFrames == 3
MaxSaves == 1
MaxLen == 3
MaxRate == 4

AcqIds == 1..MaxAcq
SockIds == 1..MaxSock
PromIds == 1..MaxFinalize
SaveIds == 1..MaxSaves

Null == 0

\* ----------------------------------------------------------------- strings
Empty == << >>

Lower(c) ==
  CASE c = "A" -> "a" [] c = "C" -> "c" [] c = "D" -> "d" [] c = "E" -> "e"
    [] c = "L" -> "l" [] c = "O" -> "o" [] c = "P" -> "p" [] c = "S" -> "s"
    [] OTHER -> c

toLowerCase(s) == [i \in 1..Len(s) |-> Lower(s[i])]

includes(s, sub) ==
  \E i \in 0..(Len(s) - Len(sub)) : SubSeq(s, i + 1, i + Len(sub)) = sub

RECURSIVE trimStart(_)
trimStart(s) == IF s # Empty /\ Head(s) = " " THEN trimStart(Tail(s)) ELSE s

RECURSIVE trimEnd(_)
trimEnd(s) ==
  IF s # Empty /\ s[Len(s)] = " " THEN trimEnd(SubSeq(s, 1, Len(s) - 1)) ELSE s

trim(s) == trimEnd(trimStart(s))

AlreadyClosed == <<"a","l","r","e","a","d","y"," ","c","l","o","s","e","d">>
SocketWord == <<"s","o","c","k","e","t">>
ClosedWord == <<"c","l","o","s","e","d">>

\* a faulty test: the message is matched as it is spelled
isSocketClosedErrorCaseSensitive(msg) ==
  includes(msg, AlreadyClosed) \/ (includes(msg, SocketWord) /\ includes(msg, ClosedWord))

isSocketClosedError(msg) ==
  LET m == toLowerCase(msg)
  IN  includes(m, AlreadyClosed) \/ (includes(m, SocketWord) /\ includes(m, ClosedWord))

\* The messages the environment produces.
ConnectionFailed ==
  <<"C","o","n","n","e","c","t","i","o","n"," ","f","a","i","l","e","d">>
PermissionDenied ==
  <<"P","e","r","m","i","s","s","i","o","n"," ","d","e","n","i","e","d">>
SocketClosedMsg == <<"S","o","c","k","e","t"," ","C","L","O","S","E","D">>
NotSupported == <<"N","o","t","S","u","p","p","o","r","t","e","d">>

AlreadyClosedMsg == <<"A","l","r","e","a","d","y"," ","C","l","o","s","e","d">>

GumErrors == {PermissionDenied}
LinkErrors == {Empty, SocketClosedMsg}
RelayErrors == {ConnectionFailed, SocketClosedMsg}
PaddedWord == <<" ","a"," ">>
RawTexts == {PaddedWord, <<" ">>}

\* An inbound 'transcript' message: { error?, is_final?, channel.alternatives[0].transcript }.
\* An absent error is Empty, an absent is_final is FALSE.
Messages(texts) ==
  [error : RelayErrors, is_final : {FALSE}, text : {Empty}]
    \cup [error : {Empty}, is_final : BOOLEAN, text : texts]

\* ------------------------------------------------------------------- blobs
NullBlob == [isNull |-> TRUE, chunks |-> << >>]
Blob(chunks) == [isNull |-> FALSE, chunks |-> chunks]

VARIABLES
  \* React state of the hook
  transcript, isRecording, error, recordedAudio, hasPendingRecording,
  \* refs of the hook
  socketRef, streamRef, contextRef, processorRef, sourceRef, mediaRecorderRef,
  recordedChunksRef, finalizeResolveRef, isResettingRef,
  \* browser objects
  streams,      \* acquisition id -> "none" | "live" | "stopped"
  contexts,     \* acquisition id -> "none" | "running" | "closed"
  wired,        \* acquisition id -> source node connected to the processor
  recorders,    \* acquisition id -> [state, onstop, stopQueued]
  sockets,      \* socket id -> "none" | "connecting" | "connected" | "closed"
  listening,    \* socket id -> the 'transcript' listener is attached
  promises,     \* promise id -> [st : "none" | "pending" | "resolved", val]
  pendingGum,   \* startRecording calls suspended in await getUserMedia
  produced,     \* chunks the recorders have delivered so far
  \* history
  appended,     \* chunks pushed since the last startRecording out of a quiet Idle
  session,      \* shape of the calls since that start, the promise of its finalize,
                \* and the promises that were pending when resetRecording was called
  heard,        \* the result messages received since the transcript was last cleared
  startSnap,    \* transcript and audio at the single pending startRecording call
  frames,       \* audio frames the script processors have produced (logged ones)
  sent,         \* the logged frames emitted as 'audio_chunk', in emission order
  \* App.tsx: the invocations of handleSaveRecording and its saving flag
  save,         \* invocation id -> [phase, promise, blob]
  isSavingRecording,
  \* one call of downsample: [input, sourceRate, targetRate, output, reads, returned]
  resample,
  \* the bounds of the run
  limits        \* [acq, sock, pending, chunks, finalize, heard, texts, frames]

hookVars ==
  << transcript, isRecording, error, recordedAudio, hasPendingRecording,
     socketRef, streamRef, contextRef, processorRef, sourceRef, mediaRecorderRef,
     recordedChunksRef, finalizeResolveRef, isResettingRef >>
envVars ==
  << streams, contexts, wired, recorders, sockets, listening, promises,
     pendingGum, produced >>
histVars == << appended, session, heard, startSnap, frames, sent >>
appVars == << save, isSavingRecording >>
vars == << hookVars, envVars, histVars, appVars, resample, limits >>

\* The state of the hook and of the objects it holds, as one record.
Cur ==
  [ transcript |-> transcript, isRecording |-> isRecording, error |-> error,
    recordedAudio |-> recordedAudio, hasPendingRecording |-> hasPendingRecording,
    socketRef |-> socketRef, streamRef |-> streamRef, contextRef |-> contextRef,
    processorRef |-> processorRef, sourceRef |-> sourceRef,
    mediaRecorderRef |-> mediaRecorderRef, recordedChunksRef |-> recordedChunksRef,
    finalizeResolveRef |-> finalizeResolveRef, isResettingRef |-> isResettingRef,
    streams |-> streams, contexts |-> contexts, wired |-> wired,
    recorders |-> recorders, sockets |-> sockets, listening |-> listening,
    promises |-> promises, pendingGum |-> pendingGum, produced |-> produced ]

\* the hook and its objects become h
Assign(h) ==
  /\ transcript' = h.transcript
  /\ isRecording' = h.isRecording
  /\ error' = h.error
  /\ recordedAudio' = h.recordedAudio
  /\ hasPendingRecording' = h.hasPendingRecording
  /\ socketRef' = h.socketRef
  /\ streamRef' = h.streamRef
  /\ contextRef' = h.contextRef
  /\ processorRef' = h.processorRef
  /\ sourceRef' = h.sourceRef
  /\ mediaRecorderRef' = h.mediaRecorderRef
  /\ recordedChunksRef' = h.recordedChunksRef
  /\ finalizeResolveRef' = h.finalizeResolveRef
  /\ isResettingRef' = h.isResettingRef
  /\ streams' = h.streams
  /\ contexts' = h.contexts
  /\ wired' = h.wired
  /\ recorders' = h.recorders
  /\ sockets' = h.sockets
  /\ listening' = h.listening
  /\ promises' = h.promises
  /\ pendingGum' = h.pendingGum
  /\ produced' = h.produced

\* a step of the hook: the App's save flow and the resampler stand still
Set(h) ==
  /\ Assign(h)
  /\ UNCHANGED << limits, frames, sent, appVars, resample >>

NoRecorder == [state |-> "none", onstop |-> FALSE, stopQueued |-> FALSE]
NoPromise == [st |-> "none", val |-> NullBlob]
NoSnap == [set |-> FALSE, transcript |-> Empty, recordedAudio |-> NullBlob]
NoSave == [phase |-> "idle", promise |-> Null, blob |-> NullBlob]
NoResample ==
  [input |-> << >>, sourceRate |-> 1, targetRate |-> 1, output |-> << >>,
   reads |-> {}, returned |-> FALSE]

InitHook ==
  /\ transcript = Empty
  /\ isRecording = FALSE
  /\ error = Empty
  /\ recordedAudio = NullBlob
  /\ hasPendingRecording = FALSE
  /\ socketRef = Null
  /\ streamRef = Null
  /\ contextRef = Null
  /\ processorRef = Null
  /\ sourceRef = Null
  /\ mediaRecorderRef = Null
  /\ recordedChunksRef = << >>
  /\ finalizeResolveRef = Null
  /\ isResettingRef = FALSE
  /\ streams = [i \in AcqIds |-> "none"]
  /\ contexts = [i \in AcqIds |-> "none"]
  /\ wired = [i \in AcqIds |-> FALSE]
  /\ recorders = [i \in AcqIds |-> NoRecorder]
  /\ sockets = [k \in SockIds |-> "none"]
  /\ listening = [k \in SockIds |-> FALSE]
  /\ promises = [p \in PromIds |-> NoPromise]
  /\ pendingGum = 0
  /\ produced = 0
  /\ appended = << >>
  /\ session = [shape |-> "none", promise |-> Null, resumeAt |-> Null, discarded |-> {}]
  /\ heard = << >>
  /\ startSnap = NoSnap
  /\ frames = 0
  /\ sent = << >>
  /\ save = [s \in SaveIds |-> NoSave]
  /\ isSavingRecording = FALSE

InitState ==
  /\ InitHook
  /\ resample = NoResample


\* --------------------------------------------------------- browser objects
\* The next unused object of each kind.
FreeAcq(h) == CHOOSE i \in AcqIds : h.streams[i] = "none" /\ \A j \in AcqIds : h.streams[j] = "none" => i <= j
FreeSock(h) == CHOOSE k \in SockIds : h.sockets[k] = "none" /\ \A j \in SockIds : h.sockets[j] = "none" => k <= j
FreeProm(h) == CHOOSE p \in PromIds : h.promises[p].st = "none" /\ \A j \in PromIds : h.promises[j].st = "none" => p <= j
Used(f, none) == Cardinality({x \in DOMAIN f : f[x] # none})

\* io(SOCKET_URL, {reconnection: true}) with the two listeners attached.
openSocket(h) ==
  LET k == FreeSock(h)
  IN  [h EXCEPT !.sockets[k] = "connecting", !.listening[k] = TRUE, !.socketRef = k]

\* a faulty close: the 'transcript' listener stays attached
closeSocketRefKeepingListener(h) ==
  IF h.socketRef # Null
  THEN [h EXCEPT !.sockets[h.socketRef] = "closed",
                 !.socketRef = Null]
  ELSE h

\* socket.off('transcript'); socket.disconnect(); socketRef.current = null
closeSocketRef(h) ==
  IF h.socketRef # Null
  THEN [h EXCEPT !.listening[h.socketRef] = FALSE,
                 !.sockets[h.socketRef] = "closed",
                 !.socketRef = Null]
  ELSE h

\* resolve(blob) of a promise: settles it once.
resolvePromise(h, p, blob) ==
  IF h.promises[p].st = "pending"
  THEN [h EXCEPT !.promises[p] = [st |-> "resolved", val |-> blob]]
  ELSE h

\* ---------------------------------------------------------------- the hook
\* a faulty doCleanup: it returns once the audio graph is taken down, so the
\* stream and the socket are released by the next call only
doCleanupOneStep(h) ==
  IF h.processorRef # Null /\ h.sourceRef # Null
  THEN LET h1 == [h EXCEPT !.wired[h.sourceRef] = FALSE,
                           !.processorRef = Null, !.sourceRef = Null]
       IN  IF h1.contextRef # Null
           THEN [h1 EXCEPT !.contexts[h1.contextRef] = "closed", !.contextRef = Null]
           ELSE h1
  ELSE LET h3 == IF h.streamRef # Null
                 THEN [h EXCEPT !.streams[h.streamRef] = "stopped", !.streamRef = Null]
                 ELSE h
           h4 == closeSocketRef(h3)
       IN  [h4 EXCEPT !.mediaRecorderRef = Null,
                      !.isRecording = FALSE,
                      !.hasPendingRecording = FALSE]

doCleanup(h) ==
  LET h1 == IF h.processorRef # Null /\ h.sourceRef # Null
            THEN [h EXCEPT !.wired[h.sourceRef] = FALSE,
                           !.processorRef = Null, !.sourceRef = Null]
            ELSE h
      h2 == IF h1.contextRef # Null
            THEN [h1 EXCEPT !.contexts[h1.contextRef] = "closed", !.contextRef = Null]
            ELSE h1
      h3 == IF h2.streamRef # Null
            THEN [h2 EXCEPT !.streams[h2.streamRef] = "stopped", !.streamRef = Null]
            ELSE h2
      h4 == closeSocketRef(h3)
  IN  [h4 EXCEPT !.mediaRecorderRef = Null,
                 !.isRecording = FALSE,
                 !.hasPendingRecording = FALSE]

clearRecordedAudio(h) ==
  [h EXCEPT !.recordedAudio = NullBlob, !.transcript = Empty,
            !.hasPendingRecording = FALSE]

\* a faulty makeBlob: the first chunk of the buffer is left out of the Blob
makeBlobWithoutFirst(mr, chunks) ==
  IF mr # Null /\ Len(chunks) > 0 THEN Blob(Tail(chunks)) ELSE NullBlob

\* new Blob(chunks) when a recorder is held and a chunk exists, else null
makeBlob(mr, chunks) ==
  IF mr # Null /\ Len(chunks) > 0 THEN Blob(chunks) ELSE NullBlob

onRecordingStop(h) ==
  LET blob == makeBlob(h.mediaRecorderRef, h.recordedChunksRef)
      h1 == IF h.isResettingRef
            THEN [h EXCEPT !.transcript = Empty, !.recordedAudio = NullBlob,
                           !.recordedChunksRef = << >>]
            ELSE IF h.finalizeResolveRef # Null
            THEN [resolvePromise(h, h.finalizeResolveRef, blob)
                    EXCEPT !.recordedAudio = IF blob.isNull THEN @ ELSE blob]
            ELSE h
      h2 == [h1 EXCEPT !.recordedChunksRef = << >>, !.mediaRecorderRef = Null]
      h3 == doCleanup(h2)
  IN  [h3 EXCEPT !.finalizeResolveRef = Null, !.isResettingRef = FALSE]

IsActiveRecording(h) ==
  h.mediaRecorderRef # Null /\ h.recorders[h.mediaRecorderRef].state = "recording"
IsPausedRecorder(h) ==
  h.mediaRecorderRef # Null /\ h.recorders[h.mediaRecorderRef].state = "paused"
IsInactiveOrNone(h) ==
  h.mediaRecorderRef = Null \/ h.recorders[h.mediaRecorderRef].state = "inactive"

\* a faulty stopRecording: everything but mediaRecorder.pause()
stopRecordingWithoutPause(h) ==
  IF IsActiveRecording(h)
  THEN LET h2 == IF h.sourceRef # Null /\ h.processorRef # Null
                 THEN [h EXCEPT !.wired[h.sourceRef] = FALSE]
                 ELSE h
           h3 == closeSocketRef(h2)
       IN  [h3 EXCEPT !.isRecording = FALSE,
                      !.hasPendingRecording = Len(h.recordedChunksRef) > 0]
  ELSE h

stopRecording(h) ==
  IF IsActiveRecording(h)
  THEN LET h1 == [h EXCEPT !.recorders[h.mediaRecorderRef].state = "paused"]
           h2 == IF h1.sourceRef # Null /\ h1.processorRef # Null
                 THEN [h1 EXCEPT !.wired[h1.sourceRef] = FALSE]
                 ELSE h1
           h3 == closeSocketRef(h2)
       IN  [h3 EXCEPT !.isRecording = FALSE,
                      !.hasPendingRecording = Len(h.recordedChunksRef) > 0]
  ELSE h

\* mediaRecorder.onstop = onRecordingStop; requestData(); stop():
\* the recorder is inactive at once, its last data and its stop event follow in a task.
stopRecorder(h) ==
  [h EXCEPT !.recorders[h.mediaRecorderRef] =
              [state |-> "inactive", onstop |-> TRUE, stopQueued |-> TRUE]]

finalizeRecording(h) ==
  LET p == FreeProm(h)
  IN  IF IsInactiveOrNone(h)
      THEN [h EXCEPT !.promises[p] = [st |-> "resolved", val |-> NullBlob]]
      ELSE stopRecorder([h EXCEPT !.promises[p] = [st |-> "pending", val |-> NullBlob],
                                  !.finalizeResolveRef = p])

resetRecording(h) ==
  IF IsInactiveOrNone(h)
  THEN doCleanup([h EXCEPT !.transcript = Empty, !.recordedAudio = NullBlob,
                           !.recordedChunksRef = << >>])
  ELSE stopRecorder([h EXCEPT !.isResettingRef = TRUE])

\* startRecording up to its first suspension: the resume branch runs to its
\* return, the fresh branch stops at await getUserMedia.
startRecording(h) ==
  LET h0 == [h EXCEPT !.error = Empty]
  IN  IF IsPausedRecorder(h0)
      THEN LET h1 == [h0 EXCEPT !.recorders[h0.mediaRecorderRef].state = "recording"]
               h2 == openSocket(h1)
               h3 == IF h2.sourceRef # Null /\ h2.processorRef # Null
                     THEN [h2 EXCEPT !.wired[h2.sourceRef] = TRUE]
                     ELSE h2
           IN  [h3 EXCEPT !.isRecording = TRUE]
      ELSE [h0 EXCEPT !.transcript = Empty, !.recordedAudio = NullBlob,
                      !.recordedChunksRef = << >>, !.hasPendingRecording = FALSE,
                      !.pendingGum = @ + 1]

\* a faulty catch: the message is never put in the error value
startRecordingCatchSilent(h, msg) ==
  doCleanup(h)

\* catch (err) of startRecording
startRecordingCatch(h, msg) ==
  doCleanup(IF ~isSocketClosedError(msg) THEN [h EXCEPT !.error = msg] ELSE h)

\* the stream, the recorder and the socket of the fresh branch (lines 352-366)
acquireRecorderAndSocket(h) ==
  LET n == FreeAcq(h)
      h1 == [h EXCEPT !.streams[n] = "live", !.streamRef = n,
                      !.recorders[n] = [state |-> "recording", onstop |-> FALSE,
                                        stopQueued |-> FALSE],
                      !.mediaRecorderRef = n]
  IN  openSocket(h1)

\* the audio graph of the fresh branch (lines 388-413); n is the stream just acquired
buildAudioGraph(h) ==
  LET n == h.streamRef
  IN  [h EXCEPT !.contexts[n] = "running", !.contextRef = n,
                !.sourceRef = n, !.processorRef = n, !.wired[n] = TRUE,
                !.isRecording = TRUE]

\* getUserMedia resolved and the rest of the fresh branch ran without an exception
startRecordingResumed(h) ==
  buildAudioGraph(acquireRecorderAndSocket([h EXCEPT !.pendingGum = @ - 1]))

\* getUserMedia rejected
startRecordingRejected(h, msg) ==
  startRecordingCatch([h EXCEPT !.pendingGum = @ - 1], msg)

\* getUserMedia resolved, the AudioContext constructor threw
startRecordingThrew(h, msg) ==
  startRecordingCatch(acquireRecorderAndSocket([h EXCEPT !.pendingGum = @ - 1]), msg)

\* a faulty connect_error listener: full teardown, with the buffer, as the
\* Idle branch of resetRecording does
onConnectErrorWithCleanup(h, message) ==
  LET msg == IF message # Empty THEN message ELSE ConnectionFailed
      h1 == IF ~isSocketClosedError(msg) THEN [h EXCEPT !.error = msg] ELSE h
  IN  doCleanup([h1 EXCEPT !.recordedChunksRef = << >>])

\* socket.on('connect_error', ...)
onConnectError(h, message) ==
  LET msg == IF message # Empty THEN message ELSE ConnectionFailed
      h1 == IF ~isSocketClosedError(msg) THEN [h EXCEPT !.error = msg] ELSE h
  IN  stopRecording(h1)

\* setTranscript((prev) => (prev ? `${prev} ${text}` : text))
appendText(prev, text) == IF prev # Empty THEN prev \o <<" ">> \o text ELSE text

\* a faulty 'transcript' listener: the text is appended untrimmed
onTranscriptUntrimmed(h, data) ==
  IF data.error # Empty
  THEN IF ~isSocketClosedError(data.error) THEN [h EXCEPT !.error = data.error] ELSE h
  ELSE IF data.is_final = TRUE
  THEN LET text == data.text
       IN  IF trim(text) # Empty
           THEN [h EXCEPT !.transcript = appendText(@, text)]
           ELSE h
  ELSE h

\* socket.on('transcript', ...)
onTranscript(h, data) ==
  IF data.error # Empty
  THEN IF ~isSocketClosedError(data.error) THEN [h EXCEPT !.error = data.error] ELSE h
  ELSE IF data.is_final = TRUE
  THEN LET text == trim(data.text)
       IN  IF text # Empty
           THEN [h EXCEPT !.transcript = appendText(@, text)]
           ELSE h
  ELSE h

\* a faulty onaudioprocess: emits whenever a socket is held, connected or not
onaudioprocessUnguarded(h) ==
  h.socketRef # Null

\* processor.onaudioprocess: TRUE when the frame is emitted as 'audio_chunk',
\* FALSE when the callback returns at its first line
onaudioprocess(h) ==
  h.socketRef # Null /\ h.sockets[h.socketRef] = "connected"

\* newRecorder.ondataavailable: size 0 is an empty Blob event
onDataAvailable(h, size) ==
  IF size > 0
  THEN [h EXCEPT !.recordedChunksRef = Append(@, h.produced + 1),
                 !.produced = @ + 1]
  ELSE h


\* the task of a stopped recorder i: ondataavailable with the last data of
\* the given size, then onstop if a handler is set
dispatchStop(h, i, size) ==
  LET h1 == onDataAvailable([h EXCEPT !.recorders[i].stopQueued = FALSE], size)
  IN  IF h.recorders[i].onstop THEN onRecordingStop(h1) ELSE h1

\* ----------------------------------------------------------------- history
\* Idle with nothing in flight: no recorder held, no start suspended, no
\* recorder that still owes an event.
QuietIdle ==
  /\ mediaRecorderRef = Null
  /\ pendingGum = 0
  /\ \A i \in AcqIds : recorders[i].state \in {"none", "inactive"} /\ ~recorders[i].stopQueued

\* A session keeps the shape start, appends, pause/resume, finalize ("clean",
\* then "finalizing", then "done" when the promise of its finalize is settled)
\* until another call makes it "dirty".
Settle(sess, h) ==
  IF sess.shape = "finalizing" /\ h.promises[sess.promise].st = "resolved"
  THEN [sess EXCEPT !.shape = "done"]
  ELSE sess

Spoil(sess) ==
  IF sess.shape \in {"clean", "finalizing"} THEN [sess EXCEPT !.shape = "dirty"] ELSE sess

\* resetRecording is called while the promises of earlier finalizeRecording
\* calls wait for a stop event: their audio is discarded
Discard(sess) ==
  [sess EXCEPT !.discarded = @ \cup {p \in PromIds : promises[p].st = "pending"}]

Tracking == session.shape \in {"clean", "finalizing"}

\* the log of received result messages; an error message carries no result
Hear(log, data) ==
  IF data.error # Empty THEN log
  ELSE Append(log, [is_final |-> data.is_final, text |-> data.text])

\* ------------------------------------------------------------------ limits
CanAcquire == Used(streams, "none") < limits.acq
CanOpenSocket == Used(sockets, "none") < limits.sock
CanPromise == Used(promises, NoPromise) < limits.finalize

\* ----------------------------------------------------------------- actions
StartRecording ==
  LET h == Cur
      paused == IsPausedRecorder(h)
  IN  /\ IF paused THEN CanOpenSocket ELSE pendingGum < limits.pending
      /\ Set(startRecording(h))
      /\ IF paused
         THEN /\ session' = IF Tracking
                            THEN [session EXCEPT !.resumeAt = Len(appended) + 1]
                            ELSE session
              /\ UNCHANGED << appended, heard, startSnap >>
         ELSE /\ appended' = << >>
              /\ session' = [shape |-> IF QuietIdle THEN "clean" ELSE "dirty",
                             promise |-> Null, resumeAt |-> Null,
                             discarded |-> session.discarded]
              /\ heard' = << >>
              /\ startSnap' = IF pendingGum = 0 /\ mediaRecorderRef = Null
                              THEN [set |-> TRUE, transcript |-> transcript,
                                    recordedAudio |-> recordedAudio]
                              ELSE NoSnap

GetUserMediaResolves ==
  /\ pendingGum > 0
  /\ CanAcquire /\ CanOpenSocket
  /\ Set(startRecordingResumed(Cur))
  /\ startSnap' = NoSnap
  /\ UNCHANGED << appended, session, heard >>

GetUserMediaRejects ==
  /\ pendingGum > 0
  /\ \E msg \in GumErrors : Set(startRecordingRejected(Cur, msg))
  /\ startSnap' = NoSnap
  /\ session' = Spoil(session)
  /\ UNCHANGED << appended, heard >>

AudioContextThrows ==
  /\ pendingGum > 0
  /\ CanAcquire /\ CanOpenSocket
  /\ Set(startRecordingThrew(Cur, NotSupported))
  /\ startSnap' = NoSnap
  /\ session' = Spoil(session)
  /\ UNCHANGED << appended, heard >>

StopRecording ==
  /\ Set(stopRecording(Cur))
  /\ UNCHANGED << appended, session, heard, startSnap >>

FinalizeRecording ==
  /\ CanPromise
  /\ LET h == finalizeRecording(Cur)
         sess == IF session.shape = "clean"
                 THEN [session EXCEPT !.shape = "finalizing", !.promise = FreeProm(Cur)]
                 ELSE Spoil(session)
     IN  /\ Set(h)
         /\ session' = Settle(sess, h)
  /\ UNCHANGED << appended, heard, startSnap >>

ResetRecording ==
  /\ Set(resetRecording(Cur))
  /\ session' = Discard(Spoil(session))
  /\ heard' = IF IsInactiveOrNone(Cur) THEN << >> ELSE heard
  /\ UNCHANGED << appended, startSnap >>

ClearRecordedAudio ==
  /\ Set(clearRecordedAudio(Cur))
  /\ heard' = << >>
  /\ UNCHANGED << appended, session, startSnap >>

\* a timeslice of a recording recorder ends: dataavailable
DataAvailable ==
  \E i \in AcqIds, size \in {0, 1} :
    /\ recorders[i].state = "recording"
    /\ streams[i] = "live"
    /\ size > 0 => produced < limits.chunks
    /\ Set(onDataAvailable(Cur, size))
    /\ appended' = IF size > 0 /\ Tracking THEN Append(appended, produced + 1) ELSE appended
    /\ UNCHANGED << session, heard, startSnap >>

\* the task a stopped recorder queued: its last dataavailable, then its stop event
RecorderStops ==
  \E i \in AcqIds, size \in {0, 1} :
    /\ recorders[i].stopQueued
    /\ size > 0 => produced < limits.chunks
    /\ LET h2 == dispatchStop(Cur, i, size)
       IN  /\ Set(h2)
           /\ session' = Settle(session, h2)
           /\ heard' = IF recorders[i].onstop /\ isResettingRef THEN << >> ELSE heard
    /\ appended' = IF size > 0 /\ Tracking THEN Append(appended, produced + 1) ELSE appended
    /\ UNCHANGED startSnap

\* every track of a recorder's stream has ended: the browser inactivates the recorder
TracksEnded ==
  \E i \in AcqIds :
    /\ recorders[i].state \in {"recording", "paused"}
    /\ streams[i] = "stopped"
    /\ Set([Cur EXCEPT !.recorders[i].state = "inactive",
                       !.recorders[i].stopQueued = TRUE])
    /\ UNCHANGED << appended, session, heard, startSnap >>

\* a connection attempt of the socket succeeds: the first one, or one that the
\* manager made by itself (reconnection: true)
SocketConnects ==
  \E k \in SockIds :
    /\ sockets[k] = "connecting"
    /\ Set([Cur EXCEPT !.sockets[k] = "connected"])
    /\ UNCHANGED << appended, session, heard, startSnap >>

\* a connection attempt fails: 'connect_error'; a socket the listener has not
\* disconnected stays connecting, the manager tries again (reconnection: true)
SocketConnectError ==
  \E k \in SockIds, message \in LinkErrors :
    /\ sockets[k] = "connecting"
    /\ Set(onConnectError(Cur, message))
    /\ UNCHANGED << appended, session, heard, startSnap >>

\* the link of a connected socket drops: the hook listens to no 'disconnect'
\* event, and the manager starts to reconnect (reconnection: true)
SocketDrops ==
  \E k \in SockIds :
    /\ sockets[k] = "connected"
    /\ Set([Cur EXCEPT !.sockets[k] = "connecting"])
    /\ UNCHANGED << appended, session, heard, startSnap >>

\* a script processor connected to the destination of a running context gets
\* an audioprocess event; the first limits.frames frames are logged
AudioProcess ==
  \E i \in AcqIds :
    /\ contexts[i] = "running"
    /\ IF frames < limits.frames
       THEN /\ frames' = frames + 1
            /\ sent' = IF onaudioprocess(Cur) THEN Append(sent, frames + 1) ELSE sent
       ELSE UNCHANGED << frames, sent >>
    /\ UNCHANGED << hookVars, envVars, appended, session, heard, startSnap, limits,
                    appVars, resample >>

TranscriptArrives ==
  \E k \in SockIds, data \in Messages(limits.texts) :
    /\ sockets[k] = "connected"
    /\ listening[k]
    /\ data.error = Empty => Len(heard) < limits.heard
    /\ Set(onTranscript(Cur, data))
    /\ heard' = Hear(heard, data)
    /\ UNCHANGED << appended, session, startSnap >>

Next ==
  \/ StartRecording
  \/ GetUserMediaResolves
  \/ GetUserMediaRejects
  \/ AudioContextThrows
  \/ StopRecording
  \/ FinalizeRecording
  \/ ResetRecording
  \/ ClearRecordedAudio
  \/ DataAvailable
  \/ RecorderStops
  \/ TracksEnded
  \/ SocketConnects
  \/ SocketConnectError
  \/ SocketDrops
  \/ AudioProcess
  \/ TranscriptArrives

\* ------------------------------------------------- App.tsx: saving a recording
\* const canSave = Boolean(transcript?.trim() && (recordedAudio || hasPendingRecording))
canSave(h) ==
  trim(h.transcript) # Empty /\ (~h.recordedAudio.isNull \/ h.hasPendingRecording)

InFlight(s) == save[s].phase \in {"awaiting", "posting"}

\* handleSaveRecording up to its first await, called with the name dialog
\* open: with recorded audio it goes on to the request, with a pending
\* recording it awaits finalizeRecording().
HandleSaveRecording ==
  \E s \in SaveIds :
    /\ ~InFlight(s)
    /\ canSave(Cur)
    /\ IF ~recordedAudio.isNull
       THEN /\ save' = [save EXCEPT ![s] = [phase |-> "posting", promise |-> Null,
                                            blob |-> recordedAudio]]
            /\ isSavingRecording' = TRUE
            /\ UNCHANGED << hookVars, envVars, session >>
       ELSE /\ CanPromise
            /\ LET h == finalizeRecording(Cur)
                   sess == IF session.shape = "clean"
                           THEN [session EXCEPT !.shape = "finalizing",
                                                !.promise = FreeProm(Cur)]
                           ELSE Spoil(session)
               IN  /\ Assign(h)
                   /\ session' = Settle(sess, h)
            /\ save' = [save EXCEPT ![s] = [phase |-> "awaiting", promise |-> FreeProm(Cur),
                                            blob |-> NullBlob]]
            /\ UNCHANGED isSavingRecording
    /\ UNCHANGED << appended, heard, startSnap, frames, sent, limits, resample >>

\* the await of finalizeRecording() returns: if (!blob) return; setIsSavingRecording(true)
SaveFinalizeSettles ==
  \E s \in SaveIds :
    /\ save[s].phase = "awaiting"
    /\ promises[save[s].promise].st = "resolved"
    /\ LET blob == promises[save[s].promise].val
       IN  IF blob.isNull
           THEN /\ save' = [save EXCEPT ![s] = NoSave]
                /\ UNCHANGED isSavingRecording
           ELSE /\ save' = [save EXCEPT ![s].phase = "posting", ![s].blob = blob]
                /\ isSavingRecording' = TRUE
    /\ UNCHANGED << hookVars, envVars, histVars, limits, resample >>

\* a faulty end of the request: clearRecordedAudio() in the finally block
SaveRespondsClearingAlways ==
  \E s \in SaveIds, ok \in BOOLEAN :
    /\ save[s].phase = "posting"
    /\ Assign(clearRecordedAudio(Cur))
    /\ heard' = << >>
    /\ save' = [save EXCEPT ![s] = [phase |-> IF ok THEN "saved" ELSE "failed",
                                    promise |-> Null, blob |-> NullBlob]]
    /\ isSavingRecording' = FALSE
    /\ UNCHANGED << appended, session, startSnap, frames, sent, limits, resample >>

\* the create request ends: an OK response clears the recording, a failure
\* or a non-OK status is logged; finally setIsSavingRecording(false)
SaveResponds ==
  \E s \in SaveIds, ok \in BOOLEAN :
    /\ save[s].phase = "posting"
    /\ IF ok
       THEN /\ Assign(clearRecordedAudio(Cur))
            /\ heard' = << >>
       ELSE UNCHANGED << hookVars, envVars, heard >>
    /\ save' = [save EXCEPT ![s] = [phase |-> IF ok THEN "saved" ELSE "failed",
                                    promise |-> Null, blob |-> NullBlob]]
    /\ isSavingRecording' = FALSE
    /\ UNCHANGED << appended, session, startSnap, frames, sent, limits, resample >>

\* the hook under its caller App.tsx
NextSave ==
  \/ Next
  \/ HandleSaveRecording
  \/ SaveFinalizeSettles
  \/ SaveResponds

\* ------------------------------------------------------------- downsample
\* Rates and lengths are integers and the arithmetic is exact: srcIndex is
\* the fraction i * sourceRate / targetRate.  The code computes in doubles;
\* the one place where their rounding can change a result, a quotient that
\* lies exactly between two integers, is kept as a choice.
Samples == {0, 1}
Rates == 1..MaxRate
Inputs == UNION {[1..n -> Samples] : n \in 0..MaxLen}

\* Math.round(num / den) for num >= 0, den > 0: halves go up
MathRound(num, den) == (2 * num + den) \div (2 * den)

\* num / den lies exactly between two integers
IsHalf(num, den) == (2 * num) % den = 0 /\ ((2 * num) \div den) % 2 = 1

\* input[k] of a typed array: undefined past its end
At(input, k) == IF k < Len(input) THEN input[k + 1] ELSE "undefined"

\* a faulty length: the ratio is applied the wrong way round
outputLengthsInverted(n, sourceRate, targetRate) ==
  {MathRound(n * sourceRate, targetRate)}

\* const ratio = sourceRate / targetRate; Math.round(input.length / ratio):
\* the lengths the doubles can give
outputLengths(n, sourceRate, targetRate) ==
  {MathRound(n * targetRate, sourceRate)}
    \cup IF IsHalf(n * targetRate, sourceRate)
         THEN {MathRound(n * targetRate, sourceRate) - 1}
         ELSE {}

\* a faulty loop body: it interpolates without the test at the end of the input
interpolateUnclamped(input, i, sourceRate, targetRate) ==
  LET idx == (i * sourceRate) \div targetRate
      rem == (i * sourceRate) % targetRate
  IN  [value |-> IF idx + 1 < Len(input)
                 THEN [num |-> At(input, idx) * (targetRate - rem)
                                 + At(input, idx + 1) * rem,
                       den |-> targetRate]
                 ELSE [num |-> "undefined", den |-> targetRate],
       reads |-> {idx, idx + 1}]

\* the body of the loop for output index i: the sample as the fraction
\* num / den, and the indices of the input it reads
interpolate(input, i, sourceRate, targetRate) ==
  LET idx == (i * sourceRate) \div targetRate
      rem == (i * sourceRate) % targetRate
  IN  IF idx + 1 < Len(input)
      THEN [value |-> [num |-> At(input, idx) * (targetRate - rem)
                                 + At(input, idx + 1) * rem,
                       den |-> targetRate],
            reads |-> {idx, idx + 1}]
      ELSE [value |-> [num |-> At(input, idx), den |-> 1],
            reads |-> {idx}]

\* downsample(input, sourceRate, targetRate) with the output length len
downsample(input, sourceRate, targetRate, len) ==
  IF sourceRate = targetRate
  THEN [output |-> input, reads |-> {}]
  ELSE [output |-> [i \in 1..len |->
                     interpolate(input, i - 1, sourceRate, targetRate).value],
        reads |-> UNION {interpolate(input, i - 1, sourceRate, targetRate).reads :
                           i \in 1..len}]

Downsample ==
  /\ ~resample.returned
  /\ \E len \in outputLengths(Len(resample.input), resample.sourceRate,
                               resample.targetRate) :
       LET r == downsample(resample.input, resample.sourceRate,
                           resample.targetRate, len)
       IN  resample' = [resample EXCEPT !.output = r.output, !.reads = r.reads,
                                        !.returned = TRUE]
  /\ UNCHANGED << hookVars, envVars, histVars, appVars, limits >>

NextDownsample == Downsample

\* A profile gives the bounds of a run; frames |-> 0 means that the frames
\* are produced and emitted but not logged.
\* Two overlapping sessions, one result message per transcript.
Wide ==
  [acq |-> MaxAcq, sock |-> MaxSock, pending |-> MaxPending, chunks |-> MaxChunks,
   finalize |-> MaxFinalize, heard |-> MaxHeard - 2, texts |-> {PaddedWord},
   frames |-> 0]

\* One session at a time: a single acquisition, start call and finalize.
Single ==
  [acq |-> MaxAcq - 1, sock |-> MaxSock, pending |-> MaxPending - 1,
   chunks |-> MaxChunks, finalize |-> MaxFinalize - 1,
   heard |-> MaxHeard - 3, texts |-> {PaddedWord},
   frames |-> 0]

\* One session at a time with one socket and a buffer of one chunk.
Brief ==
  [acq |-> MaxAcq - 1, sock |-> MaxSock - 1, pending |-> MaxPending - 1,
   chunks |-> MaxChunks - 1, finalize |-> MaxFinalize - 1,
   heard |-> MaxHeard - 3, texts |-> {PaddedWord},
   frames |-> 0]

\* One session at a time with one socket, one chunk and one result message.
Spoken ==
  [acq |-> MaxAcq - 1, sock |-> MaxSock - 1, pending |-> MaxPending - 1,
   chunks |-> MaxChunks - 1, finalize |-> MaxFinalize - 1,
   heard |-> MaxHeard - 2, texts |-> {PaddedWord},
   frames |-> 0]

\* One session at a time, no audio chunk, transcripts of several messages.
Talk ==
  [acq |-> MaxAcq - 1, sock |-> MaxSock, pending |-> MaxPending - 1,
   chunks |-> MaxChunks - 2, finalize |-> MaxFinalize - 1,
   heard |-> MaxHeard, texts |-> RawTexts,
   frames |-> 0]

\* One session at a time, no audio chunk, the frames of the processor logged.
Framed ==
  [acq |-> MaxAcq - 1, sock |-> MaxSock, pending |-> MaxPending - 1,
   chunks |-> MaxChunks - 2, finalize |-> MaxFinalize - 1,
   heard |-> MaxHeard - 3, texts |-> {PaddedWord},
   frames |-> MaxFrames]

Init == InitState /\ limits = Wide
InitSingle == InitState /\ limits = Single
InitTalk == InitState /\ limits = Talk
InitBrief == InitState /\ limits = Brief
InitSpoken == InitState /\ limits = Spoken
InitFramed == InitState /\ limits = Framed

Spec == Init /\ [][Next]_vars
SpecSingle == InitSingle /\ [][Next]_vars
SpecTalk == InitTalk /\ [][Next]_vars
SpecBrief == InitBrief /\ [][Next]_vars
SpecSpoken == InitSpoken /\ [][Next]_vars
SpecFramed == InitFramed /\ [][Next]_vars
SpecSave == InitSpoken /\ [][NextSave]_vars

\* one call of downsample on any input and any pair of rates
InitDownsample ==
  /\ InitHook
  /\ limits = Brief
  /\ resample \in [input : Inputs, sourceRate : Rates, targetRate : Rates,
                    output : {<< >>}, reads : {{}}, returned : {FALSE}]
SpecDownsample == InitDownsample /\ [][NextDownsample]_vars


\* ------------------------------------------------------- derived notions
OpenSockets == {k \in SockIds : sockets[k] \in {"connecting", "connected"}}
LiveStreams == {i \in AcqIds : streams[i] = "live"}
RunningContexts == {i \in AcqIds : contexts[i] = "running"}

\* Idle -> Recording <-> Paused -> Finalizing -> Idle, read off the recorder the hook holds
SessionState ==
  IF mediaRecorderRef = Null THEN "Idle"
  ELSE IF recorders[mediaRecorderRef].state = "inactive" THEN "Finalizing"
  ELSE IF recorders[mediaRecorderRef].state = "paused" THEN "Paused"
  ELSE "Recording"

\* ---------------------------------------------------------------- claims

\* C1: in every reachable state at most one transport socket is open and at
\* most one microphone acquisition is live.
C1_AtMostOneSocketAndStream ==
  Cardinality(OpenSockets) <= 1 /\ Cardinality(LiveStreams) <= 1


\* C2: a transport socket is open only while the session is Recording: none
\* is open in Idle or in Paused (which covers the states after finalize or
\* reset has completed).
C2_SocketOnlyWhileRecording ==
  SessionState \in {"Idle", "Paused"} => OpenSockets = {}


\* C3: a session of the shape start, chunk appends, pause/resume cycles,
\* finalize resolves its promise with the concatenation of exactly the chunks
\* appended since the start, in append order (and with null when none was).
C3_FinalizedAudioIsAppended ==
  session.shape = "done" =>
    promises[session.promise].val =
      (IF appended = << >> THEN NullBlob ELSE Blob(appended))

\* a finalized session of two chunks with a pause and a resume between them
C3_Witness ==
  /\ session.shape = "done"
  /\ appended = <<1, 2>>
  /\ session.resumeAt = 2
  /\ promises[session.promise].st = "resolved"


\* C4: while a session is open (a recorder is held before and after the step)
\* the recording buffer changes only by a chunk appended at its end.
C4_BufferAppendOnly ==
  [][ (SessionState # "Idle" /\ SessionState' # "Idle") =>
        \/ recordedChunksRef' = recordedChunksRef
        \/ /\ Len(recordedChunksRef') = Len(recordedChunksRef) + 1
           /\ SubSeq(recordedChunksRef', 1, Len(recordedChunksRef)) = recordedChunksRef
    ]_vars


\* Nothing acquired is still held: no live microphone track, no running audio
\* context, no open socket, no recorder reference, both flags false.
AllReleased ==
  /\ LiveStreams = {}
  /\ RunningContexts = {}
  /\ OpenSockets = {}
  /\ mediaRecorderRef = Null
  /\ ~isRecording
  /\ ~hasPendingRecording

\* the step in which the stop event of a recorder stopped by finalizeRecording or
\* resetRecording is handled
StopEventHandled ==
  \E i \in AcqIds :
    recorders[i].onstop /\ recorders[i].stopQueued /\ ~recorders'[i].stopQueued

\* C5: the teardown that finalizeRecording or resetRecording starts from
\* Recording or Paused leaves the session Idle with every resource released.
C5_TeardownReleasesAll ==
  [][ StopEventHandled => (SessionState' = "Idle" /\ AllReleased') ]_vars


\* the step in which the only pending startRecording, called in Idle, fails
\* (getUserMedia rejected, or a later statement of the fresh branch threw)
StartFromIdleFails ==
  /\ startSnap.set
  /\ LiveStreams = {} /\ RunningContexts = {} /\ OpenSockets = {}
  /\ pendingGum' < pendingGum
  /\ ~isRecording'

\* C6: a startRecording from Idle that fails leaves the session Idle, holding
\* no device, recorder or transport, with the transcript and the recorded
\* audio that were there before the call.
C6_FailedStartChangesNothing ==
  [][ StartFromIdleFails =>
        /\ SessionState' = "Idle"
        /\ AllReleased'
        /\ transcript' = startSnap.transcript
        /\ recordedAudio' = startSnap.recordedAudio
    ]_vars


\* C7: when getUserMedia rejects, the session is Idle after the catch, the
\* attempt has opened no socket and created no stream or recorder (neither at
\* the call nor at the rejection), the recording buffer is as it was, and the
\* error value is the message of the rejection.
C7_RejectedAcquisition ==
  [][ /\ pendingGum' > pendingGum =>
           sockets' = sockets /\ recorders' = recorders /\ streams' = streams
      /\ (pendingGum' < pendingGum /\ GetUserMediaRejects) =>
           /\ SessionState' = "Idle"
           /\ ~isRecording'
           /\ \A k \in SockIds : sockets[k] = "none" => sockets'[k] = "none"
           /\ \A i \in AcqIds : streams[i] = "none" => streams'[i] = "none"
           /\ recorders' = recorders
           /\ recordedChunksRef' = recordedChunksRef
           /\ error' \in GumErrors
    ]_vars

\* a rejected first start: Idle, the error shown, no browser object ever created
C7_Witness ==
  /\ error = PermissionDenied
  /\ SessionState = "Idle"
  /\ pendingGum = 0
  /\ Used(sockets, "none") = 0
  /\ Used(streams, "none") = 0
  /\ Used(recorders, NoRecorder) = 0


\* C8: stopRecording called in Idle or in Paused modifies nothing of the hook
\* or of the objects it holds; called in Recording it leaves the session
\* Paused, with no socket held and isRecording false.
C8_PauseOnlyFromRecording ==
  [][ (mediaRecorderRef' = mediaRecorderRef /\ StopRecording) =>
        /\ SessionState \in {"Idle", "Paused"} => UNCHANGED << hookVars, envVars >>
        /\ SessionState = "Recording" =>
             SessionState' = "Paused" /\ ~isRecording' /\ socketRef' = Null
    ]_vars

\* a session paused by stopRecording with a chunk in its buffer
C8_Witness ==
  /\ SessionState = "Paused"
  /\ hasPendingRecording
  /\ recordedChunksRef # << >>
  /\ ~isRecording
  /\ OpenSockets = {}


\* C9: a microphone stream is acquired only out of Idle with no other stream
\* live, and released only by the stop event of finalize/reset or by reset
\* itself; stopRecording and the resume branch of startRecording leave the
\* streams, the audio contexts and the recorder reference as they are.
C9_AcquireOnceReleaseOnce ==
  [][ /\ (\E i \in AcqIds : streams[i] = "none" /\ streams'[i] # "none") =>
           SessionState = "Idle" /\ LiveStreams = {}
      /\ (\E i \in AcqIds : streams[i] = "live" /\ streams'[i] = "stopped") =>
           StopEventHandled \/ ResetRecording
      /\ (StopRecording \/ (StartRecording /\ SessionState = "Paused")) =>
           /\ streams' = streams
           /\ contexts' = contexts
           /\ mediaRecorderRef' = mediaRecorderRef
    ]_vars


\* C10: the transcript is the single-space join, in arrival order, of the
\* trimmed texts of the result messages received since the last clear that
\* had is_final true and a non-empty trimmed text.
C10_TranscriptIsJoinOfFinals ==
  LET committed == SelectSeq(heard, LAMBDA m : m.is_final /\ trim(m.text) # Empty)
      RECURSIVE join(_)
      join(n) == IF n = 0 THEN Empty
                 ELSE IF n = 1 THEN trim(committed[1].text)
                 ELSE join(n - 1) \o <<" ">> \o trim(committed[n].text)
  IN  transcript = join(Len(committed))

\* the same padded final twice, then an interim: the word is in twice
C10_Witness ==
  /\ heard = << [is_final |-> TRUE, text |-> PaddedWord],
                [is_final |-> TRUE, text |-> PaddedWord],
                [is_final |-> FALSE, text |-> PaddedWord] >>
  /\ transcript = <<"a", " ", "a">>


\* the state and the refs of the hook, in the order of their declarations
HookView(h) ==
  << h.transcript, h.isRecording, h.error, h.recordedAudio, h.hasPendingRecording,
     h.socketRef, h.streamRef, h.contextRef, h.processorRef, h.sourceRef,
     h.mediaRecorderRef, h.recordedChunksRef, h.finalizeResolveRef, h.isResettingRef >>

\* the hook as useAudioStream() first returns it, among the objects of now
FirstEver ==
  [Cur EXCEPT !.transcript = Empty, !.isRecording = FALSE, !.error = Empty,
              !.recordedAudio = NullBlob, !.hasPendingRecording = FALSE,
              !.socketRef = Null, !.streamRef = Null, !.contextRef = Null,
              !.processorRef = Null, !.sourceRef = Null, !.mediaRecorderRef = Null,
              !.recordedChunksRef = << >>, !.finalizeResolveRef = Null,
              !.isResettingRef = FALSE]

\* the step in which the stop event of a recorder stopped by resetRecording is handled
ResetCompletes == StopEventHandled /\ isResettingRef

\* C11: when a resetRecording called on a held, active recorder has completed,
\* the buffer and the transcript are empty, no recorded audio is held, no
\* microphone stream is live and the session is Idle; startRecording then
\* leaves the hook as a first-ever startRecording does.
C11_ResetLeavesFreshState ==
  [][ ResetCompletes =>
        /\ recordedChunksRef' = << >>
        /\ transcript' = Empty
        /\ recordedAudio' = NullBlob
        /\ SessionState' = "Idle"
        /\ AllReleased'
        /\ HookView(startRecording(Cur))' = HookView(startRecording(FirstEver))'
    ]_vars


\* the step in which the link of the socket a Recording session holds fails and
\* no call of the hook closed it: the link of the connected socket drops, or an
\* attempt to connect fails with a message that is no expected closure
LinkFailsWhileRecording ==
  /\ SessionState = "Recording"
  /\ socketRef # Null
  /\ \/ sockets[socketRef] = "connected" /\ sockets'[socketRef] = "connecting"
     \/ /\ sockets[socketRef] = "connecting"
        /\ \E message \in LinkErrors :
             /\ ~isSocketClosedError(IF message # Empty THEN message ELSE ConnectionFailed)
             /\ Set(onConnectError(Cur, message))

\* C12: when the link of a Recording session fails, an error is in the error
\* value, the buffer is as it was, the session is Paused, and startRecording
\* then resumes it: the recorder records again on a new socket.
C12_LinkFailureSurfacedAndResumable ==
  [][ LinkFailsWhileRecording =>
        /\ error' # Empty
        /\ recordedChunksRef' = recordedChunksRef
        /\ SessionState' = "Paused"
        /\ CanOpenSocket' =>
             LET h == startRecording(Cur)'
             IN  /\ h.isRecording
                 /\ h.mediaRecorderRef = mediaRecorderRef
                 /\ h.recorders[h.mediaRecorderRef].state = "recording"
                 /\ h.socketRef \notin {Null, socketRef}
                 /\ h.sockets[h.socketRef] = "connecting"
                 /\ h.recordedChunksRef = recordedChunksRef
    ]_vars


\* the recoverable errors that can be delivered in the current state, each as
\* the state its listener leaves
AfterRecoverableError ==
  {onConnectError(Cur, message) :
     message \in {m \in LinkErrors : \E k \in SockIds : sockets[k] = "connecting"}}
  \cup
  {onTranscript(Cur, data) :
     data \in {d \in Messages(limits.texts) :
                 d.error # Empty /\ \E k \in SockIds : sockets[k] = "connected" /\ listening[k]}}

\* C13: the handling of a recoverable error, a connect_error or a 'transcript'
\* message with an error field, leaves the recording buffer and the
\* transcript exactly as they were.
C13_RecoverableErrorKeepsData ==
  \A h \in AfterRecoverableError :
    /\ h.recordedChunksRef = recordedChunksRef
    /\ h.transcript = transcript

\* an error reported to a session that holds a chunk and a transcript
C13_Witness ==
  /\ error = ConnectionFailed
  /\ recordedChunksRef # << >>
  /\ transcript # Empty
  /\ SessionState \in {"Recording", "Paused"}


\* C14: the frames emitted are a subsequence of the frames produced, in
\* production order and without repetition, and a frame can only be emitted
\* in the step that produces it, on a socket that is connected then: a frame
\* that was dropped is never emitted later.
C14_FramesInOrderOrDropped ==
  [][ /\ \A n \in 1..Len(sent') : sent'[n] \in 1..frames'
      /\ \A n \in 1..(Len(sent') - 1) : sent'[n] < sent'[n + 1]
      /\ sent' # sent =>
           /\ frames' = frames + 1
           /\ sent' = Append(sent, frames')
           /\ socketRef # Null /\ sockets[socketRef] = "connected"
      /\ (frames' # frames /\ (socketRef = Null \/ sockets[socketRef] # "connected")) =>
           sent' = sent
    ]_vars

\* three frames produced, the second dropped while the link was down
C14_Witness ==
  /\ frames = 3
  /\ sent = <<1, 3>>

\* the messages of an expected closure, in the spellings the transport uses
ExpectedClosures == {SocketClosedMsg, AlreadyClosedMsg}

\* an expected closure delivered in the current state by each of the three
\* routes an error takes, each as the state its handler leaves
AfterExpectedClosure ==
  {onConnectError(Cur, m) :
     m \in {x \in ExpectedClosures : \E k \in SockIds : sockets[k] = "connecting"}}
  \cup
  {onTranscript(Cur, [error |-> m, is_final |-> FALSE, text |-> Empty]) :
     m \in {x \in ExpectedClosures :
              \E k \in SockIds : sockets[k] = "connected" /\ listening[k]}}
  \cup
  {startRecordingRejected(Cur, m) :
     m \in {x \in ExpectedClosures : pendingGum > 0}}
  \cup
  {startRecordingThrew(Cur, m) :
     m \in {x \in ExpectedClosures : pendingGum > 0 /\ CanAcquire /\ CanOpenSocket}}

\* C15: a message of an expected closure, in any letter case, is recognised
\* as one, and its delivery as a connect_error, as the error field of an
\* inbound message or as an exception of startRecording leaves the error
\* value as it was.
C15_ExpectedClosureKeepsError ==
  /\ \A m \in ExpectedClosures : isSocketClosedError(m)
  /\ \A h \in AfterExpectedClosure : h.error = error

\* an error is shown and the socket can deliver a closure message
C15_Witness ==
  /\ error = ConnectionFailed
  /\ \E k \in SockIds : sockets[k] = "connected" /\ listening[k]
  /\ AfterExpectedClosure # {}

\* the errors that are no expected closure and can be delivered in the current
\* state, each as the pair of its message and the state its handler leaves
AfterSurfacedError ==
  {[msg |-> IF message # Empty THEN message ELSE ConnectionFailed,
    h |-> onConnectError(Cur, message)] :
     message \in {m \in LinkErrors : \E k \in SockIds : sockets[k] = "connecting"}}
  \cup
  {[msg |-> data.error, h |-> onTranscript(Cur, data)] :
     data \in {d \in Messages(limits.texts) :
                 d.error # Empty /\ \E k \in SockIds : sockets[k] = "connected" /\ listening[k]}}
  \cup
  {[msg |-> m, h |-> startRecordingRejected(Cur, m)] :
     m \in {x \in GumErrors : pendingGum > 0}}

\* the session operations that complete in the current state, each as the
\* state it leaves: a pause, a resume, a reset with no active recorder, and
\* the stop event that ends a finalize or a reset
AfterCompletedOperation ==
  {stopRecording(Cur) : x \in {y \in {1} : SessionState = "Recording"}}
  \cup
  {startRecording(Cur) : x \in {y \in {1} : SessionState = "Paused" /\ CanOpenSocket}}
  \cup
  {resetRecording(Cur) : x \in {y \in {1} : SessionState = "Idle"}}
  \cup
  {onRecordingStop(Cur) :
     i \in {j \in AcqIds : recorders[j].stopQueued /\ recorders[j].onstop}}

\* the first half of C16: an error that is no expected closure is the error value
ErrorHeld ==
  \A e \in AfterSurfacedError : ~isSocketClosedError(e.msg) => e.h.error = e.msg

\* C16: an error that is no expected closure becomes the error value, and a
\* session operation that completes leaves the error value empty.
C16_ErrorHeldUntilNextOperation ==
  /\ ErrorHeld
  /\ \A h \in AfterCompletedOperation : h.error = Empty

\* C17: once a pause, a finalize or a reset has been called, the session
\* being Paused or Finalizing, no capture source is connected to the
\* processing graph, and a frame is sent to the transport only while the
\* session is Recording.
C17_SourceCutBeforeTeardown ==
  [][ /\ SessionState' \in {"Paused", "Finalizing"} => \A i \in AcqIds : ~wired'[i]
      /\ sent' # sent => SessionState = "Recording"
    ]_vars

\* finalizeRecording called twice in a row in the current state, then the
\* stop event of the recorder with no further data: the values the two
\* promises resolve with
FinalizedTwice ==
  LET p1 == FreeProm(Cur)
      h1 == finalizeRecording(Cur)
      p2 == FreeProm(h1)
      h2 == finalizeRecording(h1)
      h3 == IF mediaRecorderRef # Null /\ h2.recorders[mediaRecorderRef].stopQueued
            THEN dispatchStop(h2, mediaRecorderRef, 0)
            ELSE h2
  IN  [first |-> h3.promises[p1], second |-> h3.promises[p2]]

\* C18: two calls of finalizeRecording with no chunk appended between them
\* resolve with equal audio objects.
C18_FinalizeTwiceSameAudio ==
  Cardinality({p \in PromIds : promises[p] = NoPromise}) >= 2 =>
    /\ FinalizedTwice.first.st = "resolved"
    /\ FinalizedTwice.second.st = "resolved"
    /\ FinalizedTwice.first.val = FinalizedTwice.second.val

\* the state once every stop task that is queued has run, with no further data
RECURSIVE released(_)
released(h) ==
  IF \E i \in AcqIds : h.recorders[i].stopQueued
  THEN released(dispatchStop(h, CHOOSE i \in AcqIds : h.recorders[i].stopQueued, 0))
  ELSE h

\* C19: in every reachable state, Idle and the states after a failed
\* startRecording included, a second doCleanup changes nothing after the
\* first, a second stopRecording changes nothing after the first, and
\* resetRecording called twice, in a row or each followed by the stop event
\* it waits for, releases to the state in which one call releases.
C19_TeardownIdempotent ==
  /\ doCleanup(doCleanup(Cur)) = doCleanup(Cur)
  /\ stopRecording(stopRecording(Cur)) = stopRecording(Cur)
  /\ IsInactiveOrNone(Cur) => resetRecording(resetRecording(Cur)) = resetRecording(Cur)
  /\ released(resetRecording(resetRecording(Cur))) = released(resetRecording(Cur))
  /\ released(resetRecording(released(resetRecording(Cur)))) = released(resetRecording(Cur))

\* a session that holds every resource and a chunk: each release path has
\* something to release
C19_Witness ==
  /\ SessionState = "Recording"
  /\ recordedChunksRef # << >>
  /\ socketRef # Null /\ sockets[socketRef] = "connected"
  /\ doCleanup(Cur) # Cur
  /\ stopRecording(Cur) # Cur
  /\ released(resetRecording(Cur)) # Cur

\* C20: a socket starts a connection attempt only when startRecording has
\* just created it; a socket whose link failed makes no attempt by itself.
C20_ReconnectionCallerDriven ==
  [][ \A k \in SockIds :
        (sockets'[k] = "connecting" /\ sockets[k] # "connecting") =>
          /\ sockets[k] = "none"
          /\ socketRef' = k
    ]_vars

\* C21: when the promise of the finalize of a session resolves, it holds the
\* audio of the chunks appended, the recording buffer is empty and the
\* session is Idle; and when the caller's hand-off of a finalized recording
\* has ended, the transcript and the buffer are cleared.
C21_FinalizeHandsOffThenClears ==
  [][ /\ (session.shape = "finalizing" /\ session'.shape = "done") =>
           /\ promises'[session.promise].val =
                (IF appended' = << >> THEN NullBlob ELSE Blob(appended'))
           /\ recordedChunksRef' = << >>
           /\ SessionState' = "Idle"
      /\ \A s \in SaveIds :
           (save[s].phase = "posting" /\ save[s].promise # Null /\ ~InFlight(s)') =>
             /\ transcript' = Empty
             /\ recordedChunksRef' = << >>
    ]_vars

\* C22: the output of downsample has the length round(n * r2 / r1), here the
\* integer k with k - 1/2 <= n * r2 / r1 < k + 1/2, give or take one, and
\* with equal rates the output is the input.
C22_OutputLength ==
  resample.returned =>
    LET n == Len(resample.input)
        r1 == resample.sourceRate
        r2 == resample.targetRate
        k == CHOOSE j \in 0..(n * r2 + 1) :
               /\ (2 * j - 1) * r1 <= 2 * n * r2
               /\ 2 * n * r2 < (2 * j + 1) * r1
    IN  /\ Len(resample.output) \in (k - 1)..(k + 1)
        /\ r1 = r2 => resample.output = resample.input

\* three samples at rate 4 brought to rate 3: a length other than the input's
C22_Witness ==
  /\ resample.returned
  /\ Len(resample.input) = 3
  /\ resample.sourceRate = 4
  /\ resample.targetRate = 3
  /\ Len(resample.output) = 2

\* C30: downsample reads no index outside its input: for every output index
\* i the index floor(i * sourceRate / targetRate) is below the input's
\* length, every index read is, and where the next index would be past the
\* end the output sample is the last sample of the input.
C30_ReadsWithinInput ==
  (resample.returned /\ resample.sourceRate # resample.targetRate) =>
    LET n == Len(resample.input)
    IN  /\ resample.reads \subseteq 0..(n - 1)
        /\ \A i \in 0..(Len(resample.output) - 1) :
             LET idx == (i * resample.sourceRate) \div resample.targetRate
             IN  /\ idx < n
                 /\ idx + 1 >= n =>
                      resample.output[i + 1] = [num |-> resample.input[n], den |-> 1]

\* two samples brought from rate 1 to rate 2: the fourth output sample lies
\* past the last input sample and holds it
C30_Witness ==
  /\ resample.returned
  /\ resample.input = <<0, 1>>
  /\ resample.sourceRate = 1
  /\ resample.targetRate = 2
  /\ Len(resample.output) = 4
  /\ resample.output[4] = [num |-> 1, den |-> 1]
  /\ resample.reads = {0, 1}

\* C23: once the stop event of every stopped recorder has been delivered, no
\* promise that finalizeRecording returned is still pending.  (Only a stop
\* event resolves a promise, so one that is pending then stays pending.)
C23_NoPromisePendingAfterStopEvents ==
  (\A i \in AcqIds : ~recorders[i].stopQueued) =>
    \A p \in PromIds : promises[p].st # "pending"

\* C24: whenever isRecording is true the hook holds a recorder in state
\* 'recording', a live stream and a socket.
C24_RecordingFlagMeansRecording ==
  isRecording =>
    /\ IsActiveRecording(Cur)
    /\ streamRef # Null /\ streams[streamRef] = "live"
    /\ socketRef # Null

\* C25: hasPendingRecording is true exactly when the hook holds a paused
\* recorder; in particular it is false while isRecording is true.
C25_PendingMeansPaused ==
  /\ hasPendingRecording <=> IsPausedRecorder(Cur)
  /\ ~(hasPendingRecording /\ isRecording)

\* the sockets that can deliver a connect_error and are not the socket the
\* hook holds
StaleSockets == {k \in SockIds : sockets[k] = "connecting" /\ k # socketRef}

\* C26: a connect_error of a socket that is not the current one leaves the
\* recorders as they are and the current socket open and held.
C26_StaleConnectErrorIgnored ==
  \A k \in StaleSockets, message \in LinkErrors :
    LET h == onConnectError(Cur, message)
    IN  /\ h.recorders = recorders
        /\ h.socketRef = socketRef
        /\ h.sockets = sockets
        /\ h.isRecording = isRecording

\* a 'transcript' event of socket k is dispatched, however late: it reaches
\* the listener if one is still attached to that socket
dispatchTranscript(h, k, data) ==
  IF h.listening[k] THEN onTranscript(h, data) ELSE h

\* C27: a 'transcript' event of a socket that a pause or a teardown has
\* closed changes neither the transcript nor the error value.
C27_ClosedSocketIsSilent ==
  \A k \in {j \in SockIds : sockets[j] = "closed"}, data \in Messages(limits.texts) :
    /\ dispatchTranscript(Cur, k, data).transcript = transcript
    /\ dispatchTranscript(Cur, k, data).error = error

\* a paused session whose socket delivered a final result before it was closed
C27_Witness ==
  /\ SessionState = "Paused"
  /\ transcript # Empty
  /\ \E k \in SockIds : sockets[k] = "closed"
  /\ socketRef = Null

\* C28: a promise of finalizeRecording that was pending when resetRecording
\* was called resolves with null, and recordedAudio is null then.
C28_DiscardedAudioNotHandedOff ==
  [][ \A p \in session.discarded :
        (promises[p].st = "pending" /\ promises'[p].st = "resolved") =>
          /\ promises'[p].val = NullBlob
          /\ recordedAudio' = NullBlob
    ]_vars

\* C29: when the create request of a save fails, the step leaves the hook,
\* recordedAudio and the transcript with it, as it was; when it succeeds,
\* recordedAudio and the transcript are cleared; isSavingRecording is false
\* after both; and no other step of handleSaveRecording changes
\* recordedAudio or the transcript.
C29_FailedSaveLosesNothing ==
  [][ /\ \A s \in SaveIds :
           save[s].phase = "posting" =>
             /\ save'[s].phase = "failed" =>
                  /\ recordedAudio' = recordedAudio
                  /\ transcript' = transcript
                  /\ hasPendingRecording' = hasPendingRecording
                  /\ ~isSavingRecording'
             /\ save'[s].phase = "saved" =>
                  /\ recordedAudio' = NullBlob
                  /\ transcript' = Empty
                  /\ ~isSavingRecording'
      /\ (save' # save /\ (recordedAudio' # recordedAudio \/ transcript' # transcript)) =>
           \E s \in SaveIds : save[s].phase = "posting" /\ save'[s].phase = "saved"
    ]_vars

\* a save has failed and the recording can be saved again
C29_Witness ==
  /\ \E s \in SaveIds : save[s].phase = "failed"
  /\ ~recordedAudio.isNull
  /\ transcript # Empty
  /\ canSave(Cur)
  /\ ~isSavingRecording

====
